------------------------------ MODULE Spec2Model ------------------------------
(***************************************************************************)
(* A model of mold's MIPS64 backend (elf/arch-mips64.cc): the relocation   *)
(* scanner, the .mips_got section (the two SymbolAddend pools, their       *)
(* finalisation, address lookup and buffer fill), the relocation applier   *)
(* with its hi16/lo16 immediate writers, and the .eh_frame CIE rewrite.    *)
(*                                                                         *)
(* 64-bit machine words are sequences of four 16-bit limbs, least          *)
(* significant first, so that u64/i64 arithmetic keeps its width.          *)
(***************************************************************************)
EXTENDS Integers, Sequences, FiniteSets, TLC

-----------------------------------------------------------------------------
(* 64-bit arithmetic on limbs                                              *)

Limb == 65536
Half == 32768

Zero64 == <<0, 0, 0, 0>>

Carry(x) == x \div Limb

\* u64 addition, wrapping modulo 2^64.
U64Add(a, b) ==
  LET s1 == a[1] + b[1]
      s2 == a[2] + b[2] + Carry(s1)
      s3 == a[3] + b[3] + Carry(s2)
      s4 == a[4] + b[4] + Carry(s3)
  IN  <<s1 % Limb, s2 % Limb, s3 % Limb, s4 % Limb>>

U64Not(a) == <<Limb - 1 - a[1], Limb - 1 - a[2], Limb - 1 - a[3], Limb - 1 - a[4]>>

\* Two's complement negation and subtraction.
U64Neg(a) == U64Add(U64Not(a), <<1, 0, 0, 0>>)

U64Sub(a, b) == U64Add(a, U64Neg(b))

\* A C++ integer literal or small i64 (|n| < 2^31) converted to 64 bits.
ToU64(n) ==
  IF n >= 0 THEN <<n % Limb, (n \div Limb) % Limb, 0, 0>>
            ELSE U64Neg(<<(-n) % Limb, ((-n) \div Limb) % Limb, 0, 0>>)

\* The value of a word reinterpreted as i64 is negative.
IsNeg64(a) == a[4] >= Half

\* Unsigned comparison, most significant limb first.
ULt64(a, b) ==
  \/ a[4] < b[4]
  \/ a[4] = b[4] /\ a[3] < b[3]
  \/ a[4] = b[4] /\ a[3] = b[3] /\ a[2] < b[2]
  \/ a[4] = b[4] /\ a[3] = b[3] /\ a[2] = b[2] /\ a[1] < b[1]

\* i64 comparison a < b.
SLt64(a, b) ==
  IF IsNeg64(a) # IsNeg64(b) THEN IsNeg64(a) ELSE ULt64(a, b)

\* Logical (u64) and arithmetic (i64) right shift by 16, left shift by 16.
Shr16(a)  == <<a[2], a[3], a[4], 0>>
AShr16(a) == <<a[2], a[3], a[4], IF IsNeg64(a) THEN Limb - 1 ELSE 0>>
Shl16(a)  == <<0, a[1], a[2], a[3]>>

\* val & 0xffff
Low16(a) == a[1]

\* Sign extension of a 16-bit field to 64 bits.
SignExtend16(x) ==
  IF x >= Half THEN <<x, Limb - 1, Limb - 1, Limb - 1>> ELSE <<x, 0, 0, 0>>

\* Bitwise or of two 16-bit fields.
RECURSIVE BitOr(_, _)
BitOr(x, y) ==
  IF x = 0 THEN y
  ELSE IF y = 0 THEN x
  ELSE (IF x % 2 = 1 \/ y % 2 = 1 THEN 1 ELSE 0) + 2 * BitOr(x \div 2, y \div 2)


-----------------------------------------------------------------------------
(* Target constants                                                        *)

BIAS == 32768

\* sizeof(Word<E>) for MIPS64LE / MIPS64BE.
WordSize == 8

\* "The first two slots are reserved followed by slots for Quickstart."
NUM_RESERVED == 2

-----------------------------------------------------------------------------
(* Symbols, relocation records and the link context                        *)

\* The symbols of the link. A symbol is identified by its position in this
\* table (the Symbol object's address); file priority and symbol index are
\* attributes read through it. Symbol 4 is an unresolved reference, on which
\* record_undef_error reports; symbol 2 is imported from a shared object;
\* symbol 3 is an absolute symbol; symbol 5 is defined in a section that was
\* discarded.
SymTab == <<
  [priority |-> 3, sym_idx |-> 2, addr |-> <<9024, 1, 0, 0>>, is_imported |-> FALSE,
   is_relative |-> TRUE, is_local |-> TRUE, is_dso |-> FALSE, is_undef |-> FALSE, is_dead |-> FALSE,
   got_idx |-> 0, gottp_idx |-> 3, tlsgd_idx |-> 4],
  [priority |-> 2, sym_idx |-> 9, addr |-> <<0, 0, 0, 0>>, is_imported |-> TRUE,
   is_relative |-> FALSE, is_local |-> FALSE, is_dso |-> TRUE, is_undef |-> FALSE, is_dead |-> FALSE,
   got_idx |-> 1, gottp_idx |-> 6, tlsgd_idx |-> 7],
  [priority |-> 3, sym_idx |-> 1, addr |-> <<65528, 32767, 0, 0>>, is_imported |-> FALSE,
   is_relative |-> FALSE, is_local |-> FALSE, is_dso |-> FALSE, is_undef |-> FALSE, is_dead |-> FALSE,
   got_idx |-> 2, gottp_idx |-> 9, tlsgd_idx |-> 10],
  [priority |-> 4, sym_idx |-> 6, addr |-> <<0, 0, 0, 0>>, is_imported |-> FALSE,
   is_relative |-> FALSE, is_local |-> FALSE, is_dso |-> FALSE, is_undef |-> TRUE, is_dead |-> FALSE,
   got_idx |-> 12, gottp_idx |-> 13, tlsgd_idx |-> 14],
  [priority |-> 5, sym_idx |-> 3, addr |-> <<0, 0, 0, 0>>, is_imported |-> FALSE,
   is_relative |-> TRUE, is_local |-> TRUE, is_dso |-> FALSE, is_undef |-> FALSE,
   is_dead |-> TRUE,
   got_idx |-> 15, gottp_idx |-> 16, tlsgd_idx |-> 17] >>

Symbols == DOMAIN SymTab

Rel(type, sym, addend) == [r_type |-> type, r_sym |-> sym, r_addend |-> addend]

\* Relocation types that scan_relocations and apply_reloc_alloc dispatch on.
GotFlagTypes == {"R_MIPS_CALL16", "R_MIPS_CALL_HI16", "R_MIPS_CALL_LO16",
                 "R_MIPS_GOT_HI16", "R_MIPS_GOT_LO16"}

PageTypes == {"R_MIPS_GOT_PAGE", "R_MIPS_GOT_OFST"}

NoScanTypes == {"R_MIPS_GPREL16_SUB_HI16", "R_MIPS_GPREL16_SUB_LO16",
                "R_MIPS_GPREL32_64", "R_MIPS_JALR",
                "R_MIPS_TLS_DTPREL_HI16", "R_MIPS_TLS_DTPREL_LO16"}

KnownTypes == {"R_MIPS_64", "R_MIPS_GOT_DISP", "R_MIPS_TLS_GOTTPREL",
               "R_MIPS_TLS_TPREL_HI16", "R_MIPS_TLS_TPREL_LO16",
               "R_MIPS_TLS_GD", "R_MIPS_TLS_LDM"}
              \cup GotFlagTypes \cup PageTypes \cup NoScanTypes

Sections == {1, 2}

VARIABLES
  rels,          \* get_rels(ctx) of each input section
  pic,           \* ctx.arg.pic
  dynsym,        \* ctx.dynsym->symbols (0 is the null entry)
  opts,          \* ctx.arg.shared, and whether the build compiles assert() in
  addrs,         \* section and base addresses fixed by the layout pass
  scan_pc,       \* each scanner's position: "loop", or "locked" inside the lock's scope
  scan_i,        \* each scanner's loop index i (1-based)
  mu,            \* ctx.extra.got->mu: 0 when free, else the holder
  got_syms,      \* ctx.extra.got->got_syms
  gotpage_syms,  \* ctx.extra.got->gotpage_syms
  flags,         \* sym.flags of every symbol
  needs_tlsld,   \* ctx.needs_tlsld
  diags,         \* diagnostics reported through Error(ctx)
  phase,         \* the link's pass
  sh_size,       \* ctx.extra.got->shdr.sh_size
  reldyn_n,      \* records reserved in .rela.dyn for .mips_got
  got_buf,       \* the .mips_got bytes in the output image, one word per slot
  dynrel,        \* the dynamic relocations copy_buf wrote
  apply_i,       \* each applier's loop index i (1-based)
  out,           \* what apply_reloc_alloc did for each record
  nonalloc,      \* a non-allocated section under apply_reloc_nonalloc
  hl,            \* the instruction word under write_hi16 / write_lo16_nc
  cie            \* the CIE under mips_rewrite_cie

linkvars == <<rels, pic, dynsym, opts, addrs, scan_pc, scan_i, mu, got_syms, gotpage_syms,
              flags, needs_tlsld, diags, phase, sh_size, reldyn_n, got_buf, dynrel,
              apply_i, out, nonalloc>>

vars == <<rels, pic, dynsym, opts, addrs, scan_pc, scan_i, mu, got_syms, gotpage_syms,
          flags, needs_tlsld, diags, phase, sh_size, reldyn_n, got_buf, dynrel,
          apply_i, out, nonalloc, hl, cie>>

-----------------------------------------------------------------------------
(* InputSection::scan_relocations                                          *)

\* record_undef_error: reports a reference to an unresolved symbol.
record_undef_error(rel) == SymTab[rel.r_sym].is_undef

\* The loop's "continue": the record never reaches the switch.
ScanSkips(rel) == rel.r_type = "R_NONE" \/ record_undef_error(rel)

\* Mutant: GOT_DISP appends whatever its addend.
ScanPushes_AnyAddend(rel) ==
  /\ ~ScanSkips(rel)
  /\ \/ rel.r_type = "R_MIPS_GOT_DISP"
     \/ rel.r_type \in PageTypes

\* The record's case appends to a pool under the lock.
ScanPushes(rel) ==
  /\ ~ScanSkips(rel)
  /\ \/ rel.r_type = "R_MIPS_GOT_DISP" /\ rel.r_addend # 0
     \/ rel.r_type \in PageTypes

\* scan_toc_rel: the generic classifier of absolute references; it may mark
\* the symbol for a copy relocation.
ScanTocRelFlags == {{}, {"NEEDS_COPYREL"}}

\* Mutant: the case labels of the call relocations are missing.
ScanFlag_NoCall(rel) ==
  CASE rel.r_type = "R_MIPS_GOT_DISP" /\ rel.r_addend = 0 -> {"NEEDS_GOT"}
    [] rel.r_type \in {"R_MIPS_GOT_HI16", "R_MIPS_GOT_LO16"} -> {"NEEDS_GOT"}
    [] rel.r_type = "R_MIPS_TLS_GOTTPREL" -> {"NEEDS_GOTTP"}
    [] rel.r_type = "R_MIPS_TLS_GD" -> {"NEEDS_TLSGD"}
    [] OTHER -> {}

\* The flags the switch ors into sym.flags for a record that pushes nothing.
ScanFlag(rel) ==
  CASE rel.r_type = "R_MIPS_GOT_DISP" /\ rel.r_addend = 0 -> {"NEEDS_GOT"}
    [] rel.r_type \in GotFlagTypes -> {"NEEDS_GOT"}
    [] rel.r_type = "R_MIPS_TLS_GOTTPREL" -> {"NEEDS_GOTTP"}
    [] rel.r_type = "R_MIPS_TLS_GD" -> {"NEEDS_TLSGD"}
    [] OTHER -> {}

\* The case labels whose body begins with assert(rel.r_addend == 0).
AssertedTypes == GotFlagTypes \cup {"R_MIPS_TLS_GOTTPREL", "R_MIPS_TLS_GD"}

\* assert(rel.r_addend == 0) fails; only a build that compiles assertions
\* in evaluates it.
AssertFails(rel) ==
  opts.asserts /\ rel.r_type \in AssertedTypes /\ rel.r_addend # 0

TpRelTypes == {"R_MIPS_TLS_TPREL_HI16", "R_MIPS_TLS_TPREL_LO16"}

\* check_tlsle: local-exec TLS is not legal in a shared object; the routine
\* reports an error then.
check_tlsle(rel) == opts.shared

\* The diagnostics the switch reports for a record.
ScanDiag(rel, t, i) ==
  IF rel.r_type \notin KnownTypes THEN {<<"unknown", t, i>>}
  ELSE IF rel.r_type \in TpRelTypes /\ check_tlsle(rel) THEN {<<"tlsle", t, i>>}
  ELSE {}

\* One iteration of the loop for a record that takes no lock. A failed
\* assertion aborts the process before the case touches anything.
ScanRecord(t) ==
  /\ phase = "scan" /\ scan_pc[t] = "loop" /\ scan_i[t] <= Len(rels[t])
  /\ LET rel == rels[t][scan_i[t]] IN
       /\ ~ScanPushes(rel)
       /\ IF ScanSkips(rel)
          THEN /\ diags' = IF rel.r_type # "R_NONE"
                           THEN diags \cup {<<"undef", t, scan_i[t]>>} ELSE diags
               /\ scan_i' = [scan_i EXCEPT ![t] = @ + 1]
               /\ UNCHANGED <<flags, needs_tlsld, phase>>
          ELSE IF AssertFails(rel)
          THEN /\ phase' = "aborted"
               /\ UNCHANGED <<flags, needs_tlsld, diags, scan_i>>
          ELSE /\ \E toc \in ScanTocRelFlags :
                    flags' = [flags EXCEPT ![rel.r_sym] =
                                @ \cup ScanFlag(rel)
                                  \cup (IF rel.r_type = "R_MIPS_64" THEN toc ELSE {})]
               /\ needs_tlsld' = (needs_tlsld \/ rel.r_type = "R_MIPS_TLS_LDM")
               /\ diags' = diags \cup ScanDiag(rel, t, scan_i[t])
               /\ scan_i' = [scan_i EXCEPT ![t] = @ + 1]
               /\ UNCHANGED phase
  /\ UNCHANGED <<rels, pic, dynsym, opts, addrs, scan_pc, mu, got_syms, gotpage_syms,
                 sh_size, reldyn_n, got_buf, dynrel, apply_i, out, nonalloc, hl, cie>>

\* std::scoped_lock lock(ctx.extra.got->mu)
ScanLock(t) ==
  /\ phase = "scan" /\ scan_pc[t] = "loop" /\ scan_i[t] <= Len(rels[t])
  /\ ScanPushes(rels[t][scan_i[t]])
  /\ mu = 0
  /\ mu' = t
  /\ scan_pc' = [scan_pc EXCEPT ![t] = "locked"]
  /\ UNCHANGED <<rels, pic, dynsym, opts, addrs, scan_i, got_syms, gotpage_syms, flags,
                 needs_tlsld, diags, phase, sh_size, reldyn_n, got_buf, dynrel,
                 apply_i, out, nonalloc, hl, cie>>

\* push_back({&sym, rel.r_addend}), then the lock's scope ends.
ScanPush(t) ==
  /\ phase = "scan" /\ scan_pc[t] = "locked" /\ mu = t
  /\ LET rel == rels[t][scan_i[t]]
         ent == [sym |-> rel.r_sym, addend |-> rel.r_addend]
     IN  IF rel.r_type = "R_MIPS_GOT_DISP"
         THEN got_syms' = Append(got_syms, ent) /\ UNCHANGED gotpage_syms
         ELSE gotpage_syms' = Append(gotpage_syms, ent) /\ UNCHANGED got_syms
  /\ mu' = 0
  /\ scan_pc' = [scan_pc EXCEPT ![t] = "loop"]
  /\ scan_i' = [scan_i EXCEPT ![t] = @ + 1]
  /\ UNCHANGED <<rels, pic, dynsym, opts, addrs, flags, needs_tlsld, diags, phase, sh_size,
                 reldyn_n, got_buf, dynrel, apply_i, out, nonalloc, hl, cie>>

-----------------------------------------------------------------------------
(* MipsGotSection: the pools, their finalisation and the slot lookup       *)

\* Lexicographic order of the tuples (priority, sym_idx, addend).
TupleLess(p1, i1, a1, p2, i2, a2) ==
  \/ p1 < p2
  \/ p1 = p2 /\ i1 < i2
  \/ p1 = p2 /\ i1 = i2 /\ a1 < a2

\* Mutant: the order of the symbols alone, without the addend.
SymbolAddendLess_NoAddend(a, b) ==
  TupleLess(SymTab[a.sym].priority, SymTab[a.sym].sym_idx, 0,
            SymTab[b.sym].priority, SymTab[b.sym].sym_idx, 0)

\* SymbolAddend::operator<
SymbolAddendLess(a, b) ==
  TupleLess(SymTab[a.sym].priority, SymTab[a.sym].sym_idx, a.addend,
            SymTab[b.sym].priority, SymTab[b.sym].sym_idx, b.addend)

\* SymbolAddend::operator== (defaulted): the same Symbol and the same addend.
SymbolAddendEq(a, b) == a.sym = b.sym /\ a.addend = b.addend

\* Insertion of x behind every element that is not greater than x.
RECURSIVE InsertSorted(_, _)
InsertSorted(x, s) ==
  IF s = <<>> THEN <<x>>
  ELSE IF SymbolAddendLess(x, Head(s)) THEN <<x>> \o s
  ELSE <<Head(s)>> \o InsertSorted(x, Tail(s))

\* sort(vec): a stable sort by operator<.
RECURSIVE sort(_)
sort(s) ==
  IF s = <<>> THEN <<>>
  ELSE InsertSorted(s[Len(s)], sort(SubSeq(s, 1, Len(s) - 1)))

\* remove_duplicates(vec): erases every element equal to its predecessor.
RECURSIVE remove_duplicates(_)
remove_duplicates(s) ==
  IF Len(s) <= 1 THEN s
  ELSE LET r == remove_duplicates(SubSeq(s, 1, Len(s) - 1))
       IN  IF SymbolAddendEq(r[Len(r)], s[Len(s)]) THEN r ELSE Append(r, s[Len(s)])

\* std::lower_bound(vec.begin(), vec.end(), x) as a 0-based position; Len(s)
\* is vec.end(). first and count are the halving search's variables.
RECURSIVE LowerBoundFrom(_, _, _, _)
LowerBoundFrom(s, x, first, count) ==
  IF count <= 0 THEN first
  ELSE LET step == count \div 2
           it == first + step
       IN  IF SymbolAddendLess(s[it + 1], x)
           THEN LowerBoundFrom(s, x, it + 1, count - (step + 1))
           ELSE LowerBoundFrom(s, x, first, step)

lower_bound(s, x) == LowerBoundFrom(s, x, 0, Len(s))

\* ctx.dynsym->symbols.size()
DynsymSize == Len(dynsym)

\* sh_addr + idx * sizeof(Word<E>)
SlotAddr(idx) == U64Add(addrs.mips_got, ToU64(idx * WordSize))

\* The GOT index get_got_addr computes for (sym, addend).
got_idx_of(sym, addend) ==
  NUM_RESERVED + DynsymSize + lower_bound(got_syms, [sym |-> sym, addend |-> addend])

\* Mutant: the page pool's index without the ordinary pool's size.
gotpage_idx_of_NoOrdinary(sym, addend) ==
  NUM_RESERVED + DynsymSize
    + lower_bound(gotpage_syms, [sym |-> sym, addend |-> addend])

\* The GOT index get_gotpage_got_addr computes for (sym, addend).
gotpage_idx_of(sym, addend) ==
  NUM_RESERVED + DynsymSize + Len(got_syms)
    + lower_bound(gotpage_syms, [sym |-> sym, addend |-> addend])

get_got_addr(sym, addend) == SlotAddr(got_idx_of(sym, addend))

get_gotpage_got_addr(sym, addend) == SlotAddr(gotpage_idx_of(sym, addend))

\* SymbolAddend::get_addr: sym->get_addr(ctx, flags) + addend
SymbolAddendAddr(ent) == U64Add(SymTab[ent.sym].addr, ToU64(ent.addend))

\* The GotEntry get_got_entries makes for an entry of got_syms.
GotEntryOf(ent) ==
  IF SymTab[ent.sym].is_imported
  THEN [val |-> Zero64, r_type |-> "R_DYNAMIC", sym |-> ent.sym]
  ELSE IF pic /\ SymTab[ent.sym].is_relative
  THEN [val |-> SymbolAddendAddr(ent), r_type |-> "R_RELATIVE", sym |-> 0]
  ELSE [val |-> SymbolAddendAddr(ent), r_type |-> "R_NONE", sym |-> 0]

\* The GotEntry get_got_entries makes for an entry of gotpage_syms.
GotPageEntryOf(ent) ==
  IF pic /\ SymTab[ent.sym].is_relative
  THEN [val |-> SymbolAddendAddr(ent), r_type |-> "R_RELATIVE", sym |-> 0]
  ELSE [val |-> SymbolAddendAddr(ent), r_type |-> "R_NONE", sym |-> 0]

\* Mutant: the page entries come before the ordinary entries.
get_got_entries_PageFirst ==
  [k \in 1..Len(gotpage_syms) |-> GotPageEntryOf(gotpage_syms[k])]
    \o [k \in 1..Len(got_syms) |-> GotEntryOf(got_syms[k])]

get_got_entries ==
  [k \in 1..Len(got_syms) |-> GotEntryOf(got_syms[k])]
    \o [k \in 1..Len(gotpage_syms) |-> GotPageEntryOf(gotpage_syms[k])]

RECURSIVE CountFixups(_)
CountFixups(entries) ==
  IF entries = <<>> THEN 0
  ELSE (IF Head(entries).r_type # "R_NONE" THEN 1 ELSE 0) + CountFixups(Tail(entries))

\* Mutant: every entry is counted, with or without a fixup.
get_reldyn_size_AllEntries == Len(get_got_entries)

get_reldyn_size == CountFixups(get_got_entries)

\* Every scanner has left its loop.
ScanFinished == \A t \in Sections : scan_pc[t] = "loop" /\ scan_i[t] > Len(rels[t])

\* The end of the scan pass: the link stops here when a diagnostic was
\* reported during the pass.
checkpoint ==
  /\ phase = "scan" /\ ScanFinished
  /\ phase' = IF diags = {} THEN "scanned" ELSE "failed"
  /\ UNCHANGED <<rels, pic, dynsym, opts, addrs, scan_pc, scan_i, mu, got_syms, gotpage_syms,
                 flags, needs_tlsld, diags, sh_size, reldyn_n, got_buf, dynrel,
                 apply_i, out, nonalloc, hl, cie>>

\* The two pools after update_shdr's sort and remove_duplicates.
Finalized(pool) == remove_duplicates(sort(pool))

\* Mutant: the size is computed before the duplicates are removed.
update_shdr_SizeFirst ==
  /\ phase = "scanned"
  /\ got_syms' = Finalized(got_syms)
  /\ gotpage_syms' = Finalized(gotpage_syms)
  /\ sh_size' = (NUM_RESERVED + DynsymSize + Len(got_syms) + Len(gotpage_syms))
                  * WordSize
  /\ phase' = "layout"
  /\ UNCHANGED <<rels, pic, dynsym, opts, addrs, scan_pc, scan_i, mu, flags, needs_tlsld,
                 diags, reldyn_n, got_buf, dynrel, apply_i, out, nonalloc, hl, cie>>

update_shdr ==
  /\ phase = "scanned"
  /\ got_syms' = Finalized(got_syms)
  /\ gotpage_syms' = Finalized(gotpage_syms)
  /\ sh_size' = (NUM_RESERVED + DynsymSize + Len(got_syms') + Len(gotpage_syms'))
                  * WordSize
  /\ phase' = "layout"
  /\ UNCHANGED <<rels, pic, dynsym, opts, addrs, scan_pc, scan_i, mu, flags, needs_tlsld,
                 diags, reldyn_n, got_buf, dynrel, apply_i, out, nonalloc, hl, cie>>

\* The .rela.dyn region of .mips_got is sized with get_reldyn_size.
reserve_reldyn ==
  /\ phase = "layout"
  /\ reldyn_n' = get_reldyn_size
  /\ phase' = "fill"
  /\ UNCHANGED <<rels, pic, dynsym, opts, addrs, scan_pc, scan_i, mu, got_syms, gotpage_syms,
                 flags, needs_tlsld, diags, sh_size, got_buf, dynrel, apply_i, out,
                 nonalloc, hl, cie>>

\* buf[1]: only the sign bit set.
Sentinel == <<0, 0, 0, Half>>

\* sym->get_dynsym_idx(ctx): the symbol's position in .dynsym, -1 if absent.
get_dynsym_idx(sym) ==
  IF \E k \in 1..Len(dynsym) : dynsym[k] = sym
  THEN (CHOOSE k \in 1..Len(dynsym) : dynsym[k] = sym) - 1
  ELSE -1

\* The dynamic symbols copy_buf mirrors: defined by this link.
Mirrored(i) ==
  /\ dynsym[i + 1] # 0
  /\ ~SymTab[dynsym[i + 1]].is_dso
  /\ ~SymTab[dynsym[i + 1]].is_undef

\* The slot writes of copy_buf after the memset, in program order, as
\* <<index, value>>.
CopyBufWrites ==
  LET mirror == SelectSeq([i \in 1..DynsymSize |-> i - 1], Mirrored)
      first  == NUM_RESERVED + DynsymSize
      ents   == get_got_entries
  IN  <<  <<1, Sentinel>>  >>
      \o [k \in 1..Len(mirror) |->
             <<mirror[k] + NUM_RESERVED, SymTab[dynsym[mirror[k] + 1]].addr>>]
      \o [k \in 1..Len(ents) |-> <<first + k - 1, ents[k].val>>]

\* The records copy_buf writes through dynrel++, in program order.
CopyBufDynrels ==
  LET first == NUM_RESERVED + DynsymSize
      ents  == get_got_entries
      isfix(k) == ents[k].r_type # "R_NONE"
      idx   == SelectSeq([k \in 1..Len(ents) |-> k], isfix)
  IN  [j \in 1..Len(idx) |->
         [r_offset |-> SlotAddr(first + idx[j] - 1),
          r_type   |-> ents[idx[j]].r_type,
          r_sym    |-> IF ents[idx[j]].sym # 0 THEN get_dynsym_idx(ents[idx[j]].sym) ELSE 0,
          r_addend |-> ents[idx[j]].val]]

\* The image after the writes w are stored in order into mem, a function
\* from slot index to word; a store past the end of mem extends it.
RECURSIVE Store(_, _)
Store(mem, w) ==
  IF w = <<>> THEN mem
  ELSE LET i == Head(w)[1]
           v == Head(w)[2]
           m == [k \in (DOMAIN mem) \cup {i} |-> IF k = i THEN v ELSE mem[k]]
       IN  Store(m, Tail(w))

copy_buf ==
  /\ phase = "fill" /\ got_buf = <<>>
  /\ got_buf' = Store([k \in 0..(sh_size \div WordSize - 1) |-> Zero64], CopyBufWrites)
  /\ dynrel' = CopyBufDynrels
  /\ UNCHANGED <<rels, pic, dynsym, opts, addrs, scan_pc, scan_i, mu, got_syms, gotpage_syms,
                 flags, needs_tlsld, diags, phase, sh_size, reldyn_n, apply_i, out,
                 nonalloc, hl, cie>>

-----------------------------------------------------------------------------
(* InputSection::apply_reloc_alloc                                         *)

\* Mutant: the upper limit is taken as inclusive.
check_Inclusive(val, lo, hi) == SLt64(val, lo) \/ SLt64(hi, val)

\* check(val, lo, hi): the out-of-range diagnostic is reported.
check(val, lo, hi) == SLt64(val, lo) \/ ~SLt64(val, hi)

\* *(U32<E> *)loc |= field, on a word held as <<low half, high half>>.
OrLow16(loc, field) == <<BitOr(loc[1], field), loc[2]>>

\* -(1LL << 31) and 1LL << 31
MinS32 == <<0, Half, Limb - 1, Limb - 1>>
LimS32 == <<0, Half, 0, 0>>

\* Mutant: the high half without the carry of the low half.
write_hi16_NoBias(loc, val) ==
  [loc  |-> OrLow16(loc, Low16(Shr16(val))),
   diag |-> check(val, MinS32, LimS32)]

write_hi16(loc, val) ==
  [loc  |-> OrLow16(loc, Low16(Shr16(U64Add(val, ToU64(BIAS))))),
   diag |-> check(val, MinS32, LimS32)]

write_lo16(loc, val) ==
  [loc  |-> OrLow16(loc, Low16(val)),
   diag |-> check(val, ToU64(-Half), ToU64(Half))]

write_lo16_nc(loc, val) ==
  [loc  |-> OrLow16(loc, Low16(val)),
   diag |-> FALSE]

\* sym.get_got_idx(ctx): the slot the resolver gave a symbol flagged
\* NEEDS_GOT, -1 for a symbol without one.
get_got_idx(sym) == IF "NEEDS_GOT" \in flags[sym] THEN SymTab[sym].got_idx ELSE -1

\* Addresses of the TLS slots of .got.
get_gottp_addr(sym) == U64Add(addrs.got, ToU64(SymTab[sym].gottp_idx * WordSize))
get_tlsgd_addr(sym) == U64Add(addrs.got, ToU64(SymTab[sym].tlsgd_idx * WordSize))
get_tlsld_addr == U64Add(addrs.got, ToU64(addrs.tlsld_idx * WordSize))

\* The instruction word at loc before the relocation is applied: the
\* 16-bit immediate field is clear.
InsnWord == <<0, 36729>>

\* The word behind it, at loc + 4.
NextWord == <<0, 9216>>

\* The 64 bits a U64<E> access at loc covers, for the little-endian target:
\* the word at loc is the low half.
MemAt(word) == word \o NextWord

\* apply_toc_rel, called for R_MIPS_64: the word it stores at loc is S + A,
\* or A alone when the dynamic relocation it emits names the symbol. No
\* other case calls it.
apply_toc_rel(rel) ==
  IF rel.r_type = "R_MIPS_64"
  THEN {U64Add(SymTab[rel.r_sym].addr, ToU64(rel.r_addend)), ToU64(rel.r_addend)}
  ELSE {Zero64}

\* The switch of apply_reloc_alloc for one record: which writer runs (how),
\* on which value (val), which slot the value was read from (reads) and, for
\* a pool lookup, the position lower_bound returned (pos).
ApplyCase(rel) ==
  LET sym == rel.r_sym
      ty  == rel.r_type
      S   == SymTab[sym].addr
      A   == ToU64(rel.r_addend)
      G   == ToU64(get_got_idx(sym) * WordSize)
      GOT == addrs.got
      GP  == addrs.gp
      GP0 == addrs.gp0
      SA  == U64Add(S, A)
      gprel == IF SymTab[sym].is_local THEN U64Sub(U64Add(SA, GP0), GP)
                                       ELSE U64Sub(SA, GP)
      gotrel == U64Sub(U64Add(G, GOT), GP)
      ent == [sym |-> sym, addend |-> rel.r_addend]
      C(how, val, reads, pos) == [how |-> how, val |-> val, reads |-> reads, pos |-> pos]
  IN  CASE ty = "R_MIPS_64" -> C("toc", SA, "none", -1)
        [] ty = "R_MIPS_GPREL16_SUB_HI16" -> C("hi16", U64Neg(gprel), "none", -1)
        [] ty = "R_MIPS_GPREL16_SUB_LO16" -> C("lo16_nc", U64Neg(gprel), "none", -1)
        [] ty = "R_MIPS_GPREL32_64" ->
             C("u64", U64Sub(U64Add(SA, GP0), GP), "none", -1)
        [] ty = "R_MIPS_GOT_DISP" /\ rel.r_addend = 0 -> C("lo16", gotrel, "got", -1)
        [] ty = "R_MIPS_GOT_DISP" /\ rel.r_addend # 0 ->
             C("lo16", U64Sub(get_got_addr(sym, rel.r_addend), GP), "gotpool",
               lower_bound(got_syms, ent))
        [] ty \in {"R_MIPS_CALL_HI16", "R_MIPS_GOT_HI16"} -> C("hi16", gotrel, "got", -1)
        [] ty \in {"R_MIPS_CALL16", "R_MIPS_CALL_LO16", "R_MIPS_GOT_LO16"} ->
             C("lo16", gotrel, "got", -1)
        [] ty = "R_MIPS_GOT_PAGE" ->
             C("lo16", U64Sub(get_gotpage_got_addr(sym, rel.r_addend), GP), "pagepool",
               lower_bound(gotpage_syms, ent))
        [] ty = "R_MIPS_GOT_OFST" -> C("lo16", Zero64, "none", -1)
        [] ty = "R_MIPS_JALR" -> C("none", Zero64, "none", -1)
        [] ty = "R_MIPS_TLS_TPREL_HI16" -> C("hi16", U64Sub(SA, addrs.tp), "none", -1)
        [] ty = "R_MIPS_TLS_TPREL_LO16" -> C("lo16_nc", U64Sub(SA, addrs.tp), "none", -1)
        [] ty = "R_MIPS_TLS_GOTTPREL" ->
             C("lo16", U64Sub(get_gottp_addr(sym), GP), "gottp", -1)
        [] ty = "R_MIPS_TLS_DTPREL_HI16" -> C("hi16", U64Sub(SA, addrs.dtp), "none", -1)
        [] ty = "R_MIPS_TLS_DTPREL_LO16" -> C("lo16_nc", U64Sub(SA, addrs.dtp), "none", -1)
        [] ty = "R_MIPS_TLS_GD" -> C("lo16", U64Sub(get_tlsgd_addr(sym), GP), "tlsgd", -1)
        [] ty = "R_MIPS_TLS_LDM" -> C("lo16", U64Sub(get_tlsld_addr, GP), "tlsld", -1)
        [] OTHER -> C("skip", Zero64, "none", -1)

\* What one iteration of the loop leaves behind: the case taken, the 64
\* bits at loc afterwards (mem), the word at loc (loc) and whether check
\* reported. toc is the word apply_toc_rel stores for R_MIPS_64.
ApplyResult(rel, toc) ==
  LET c == ApplyCase(rel)
      w == CASE c.how = "hi16"    -> write_hi16(InsnWord, c.val)
             [] c.how = "lo16"    -> write_lo16(InsnWord, c.val)
             [] c.how = "lo16_nc" -> write_lo16_nc(InsnWord, c.val)
             [] OTHER             -> [loc |-> InsnWord, diag |-> FALSE]
      mem == CASE c.how = "u64" -> c.val
               [] c.how = "toc" -> toc
               [] OTHER         -> MemAt(w.loc)
  IN  [how |-> c.how, val |-> c.val, reads |-> c.reads, pos |-> c.pos,
       mem |-> mem, loc |-> <<mem[1], mem[2]>>, diag |-> w.diag]

\* default: unreachable(). A type without a case label is undefined
\* behaviour, after which the process goes on with the next record or
\* crashes; every other record leaves the pass running.
ApplyOutcomes(rel) ==
  IF rel.r_type \in KnownTypes \cup {"R_NONE"} THEN {"fill"} ELSE {"fill", "crashed"}

\* One iteration of the loop of apply_reloc_alloc.
ApplyRecord(t) ==
  /\ phase = "fill" /\ apply_i[t] <= Len(rels[t])
  /\ \E toc \in apply_toc_rel(rels[t][apply_i[t]]) :
     \E ph \in ApplyOutcomes(rels[t][apply_i[t]]) :
       LET rel == rels[t][apply_i[t]]
           res == ApplyResult(rel, toc)
       IN  /\ out' = [out EXCEPT ![t] = Append(@, res)]
           /\ diags' = IF res.diag THEN diags \cup {<<"range", t, apply_i[t]>>}
                       ELSE diags
           /\ phase' = ph
  /\ apply_i' = [apply_i EXCEPT ![t] = @ + 1]
  /\ UNCHANGED <<rels, pic, dynsym, opts, addrs, scan_pc, scan_i, mu, got_syms, gotpage_syms,
                 flags, needs_tlsld, sh_size, reldyn_n, got_buf, dynrel, nonalloc, hl, cie>>

-----------------------------------------------------------------------------
(* InputSection::apply_reloc_nonalloc                                      *)

\* The 64 bits at loc in a non-allocated section before the relocation is
\* applied.
DataMem == <<4369, 8738, 13107, 17476>>

\* get_tombstone(sym, frag): the value that stands for a reference into a
\* discarded section, if the symbol's section was discarded.
get_tombstone(sym) == IF SymTab[sym].is_dead THEN <<Zero64>> ELSE <<>>

\* The switch of apply_reloc_nonalloc for one record: the case taken and
\* the 64 bits at loc afterwards. The records refer to symbols, not to
\* section fragments, and carry their addend (get_addend returns r_addend).
NonallocCase(rel) ==
  LET S  == SymTab[rel.r_sym].addr
      A  == ToU64(rel.r_addend)
      SA == U64Add(S, A)
      tomb == get_tombstone(rel.r_sym)
  IN  CASE rel.r_type = "R_MIPS_64" ->
             [how |-> "u64", mem |-> IF tomb # <<>> THEN tomb[1] ELSE SA]
        [] rel.r_type = "R_MIPS_32" ->
             [how |-> "u32", mem |-> <<SA[1], SA[2], DataMem[3], DataMem[4]>>]
        [] OTHER -> [how |-> "fatal", mem |-> DataMem]

\* One iteration of the loop of apply_reloc_nonalloc.
apply_reloc_nonalloc ==
  /\ phase = "fill" /\ nonalloc.i <= Len(nonalloc.rels)
  /\ LET rel == nonalloc.rels[nonalloc.i]
         c   == NonallocCase(rel)
     IN  IF ScanSkips(rel)
         THEN /\ diags' = IF rel.r_type # "R_NONE"
                          THEN diags \cup {<<"undef", 0, nonalloc.i>>} ELSE diags
              /\ nonalloc' = [nonalloc EXCEPT !.i = @ + 1,
                                !.out = Append(@, [how |-> "skip", mem |-> DataMem])]
              /\ UNCHANGED phase
         ELSE IF c.how = "fatal"
         THEN /\ phase' = "fatal"
              /\ UNCHANGED <<diags, nonalloc>>
         ELSE /\ nonalloc' = [nonalloc EXCEPT !.i = @ + 1, !.out = Append(@, c)]
              /\ UNCHANGED <<diags, phase>>
  /\ UNCHANGED <<rels, pic, dynsym, opts, addrs, scan_pc, scan_i, mu, got_syms, gotpage_syms,
                 flags, needs_tlsld, sh_size, reldyn_n, got_buf, dynrel, apply_i, out,
                 hl, cie>>

-----------------------------------------------------------------------------
(* The link: initial states and next-state relation                        *)

\* Sequences over S of length at most n.
SeqsUpTo(S, n) == UNION {[1..k -> S] : k \in 0..n}

\* The most relocation records the input sections hold together.
MaxRels == 3

\* Relocation records that reach the pools: the same pair twice over the
\* sections, one symbol with two addends, an imported and an absolute symbol.
PoolRecords == {
  Rel("R_MIPS_GOT_DISP", 1, 8),  Rel("R_MIPS_GOT_DISP", 1, -4),
  Rel("R_MIPS_GOT_DISP", 2, 8),  Rel("R_MIPS_GOT_DISP", 3, 0),
  Rel("R_MIPS_GOT_OFST", 1, 8),  Rel("R_MIPS_GOT_PAGE", 3, -4) }

\* ctx.arg.pic and .dynsym of a position-independent and of a static link.
LinkModes == { [pic |-> TRUE, dynsym |-> <<0, 2, 1>>], [pic |-> FALSE, dynsym |-> <<0>>] }

\* Address of .mips_got, .got, _gp, the file's gp0, the TLS bases and the
\* TLS-LD slot: _gp is .mips_got + 0x7ff0 and .got follows it.
NearLayout == [mips_got |-> <<0, 3, 0, 0>>, got |-> <<32768, 3, 0, 0>>,
               gp |-> <<32752, 3, 0, 0>>, gp0 |-> <<32752, 0, 0, 0>>,
               tp |-> <<28672, 4, 0, 0>>, dtp |-> <<32768, 4, 0, 0>>, tlsld_idx |-> 5]

\* _gp and both tables far apart: .got 8 GiB up, .mips_got 1 MiB up.
FarLayout == [mips_got |-> <<0, 16, 0, 0>>, got |-> <<0, 0, 2, 0>>,
              gp |-> <<32752, 3, 0, 0>>, gp0 |-> <<32752, 0, 0, 0>>,
              tp |-> <<28672, 4, 0, 0>>, dtp |-> <<32768, 4, 0, 0>>, tlsld_idx |-> 5]

\* Slots on both edges of the 16-bit range: .got is _gp + 32752, so that
\* slot 2 of .got is at _gp + 32768, and slot 5 of .mips_got is at
\* _gp - 32776, slot 6 at _gp - 32768.
EdgeLayout == [mips_got |-> <<65472, 2, 0, 0>>, got |-> <<65504, 3, 0, 0>>,
               gp |-> <<32752, 3, 0, 0>>, gp0 |-> <<32752, 0, 0, 0>>,
               tp |-> <<28672, 4, 0, 0>>, dtp |-> <<32768, 4, 0, 0>>, tlsld_idx |-> 5]

\* No write_hi16 / write_lo16_nc experiment and no CIE in a link.
NoHiLo == [pc |-> "off"]
NoCie  == [pc |-> "off"]

\* A non-allocated section with the relocation records r.
Nonalloc(r) == [rels |-> r, i |-> 1, out |-> <<>>]

\* An executable linked by a build that compiles assertions in.
ExecOpts == [shared |-> FALSE, asserts |-> TRUE]

InitLink(relsets, modes, layouts) ==
  /\ rels \in relsets
  /\ \E m \in modes : pic = m.pic /\ dynsym = m.dynsym
  /\ addrs \in layouts
  /\ scan_pc = [t \in Sections |-> "loop"]
  /\ scan_i = [t \in Sections |-> 1]
  /\ mu = 0
  /\ got_syms = <<>>
  /\ gotpage_syms = <<>>
  /\ flags = [s \in Symbols |-> {}]
  /\ needs_tlsld = FALSE
  /\ diags = {}
  /\ phase = "scan"
  /\ sh_size = 0
  /\ reldyn_n = 0
  /\ got_buf = <<>>
  /\ dynrel = <<>>
  /\ apply_i = [t \in Sections |-> 1]
  /\ out = [t \in Sections |-> <<>>]

\* Two sections scanned concurrently, MaxRels records between them.
PoolRelSets ==
  {r \in [Sections -> SeqsUpTo(PoolRecords, MaxRels)] : Len(r[1]) + Len(r[2]) <= MaxRels}

Init ==
  /\ InitLink(PoolRelSets, LinkModes, {NearLayout})
  /\ opts = ExecOpts
  /\ nonalloc = Nonalloc(<<Rel("R_MIPS_64", 1, 8)>>)
  /\ hl = NoHiLo /\ cie = NoCie

Next ==
  \/ \E t \in Sections : ScanRecord(t)
  \/ \E t \in Sections : ScanLock(t)
  \/ \E t \in Sections : ScanPush(t)
  \/ checkpoint
  \/ update_shdr
  \/ reserve_reldyn
  \/ copy_buf
  \/ \E t \in Sections : ApplyRecord(t)
  \/ apply_reloc_nonalloc

Spec == Init /\ [][Next]_vars

\* The most relocation records of the section under SpecReloc.
MaxRelocs == 2

\* One record or more of every relocation type of the switch, a type the
\* switch does not know, references to the unresolved symbol, and records
\* whose addend breaks the assertion of their case.
RelocRecords == {
  Rel("R_NONE", 1, 0),
  Rel("R_MIPS_64", 1, 8),
  Rel("R_MIPS_GPREL16_SUB_HI16", 1, 8), Rel("R_MIPS_GPREL16_SUB_LO16", 1, 8),
  Rel("R_MIPS_GPREL32_64", 3, 0),
  Rel("R_MIPS_GOT_DISP", 1, 0),
  Rel("R_MIPS_GOT_DISP", 1, 8), Rel("R_MIPS_GOT_DISP", 3, -4),
  Rel("R_MIPS_CALL_HI16", 2, 0), Rel("R_MIPS_GOT_HI16", 1, 0),
  Rel("R_MIPS_CALL16", 2, 0), Rel("R_MIPS_CALL_LO16", 3, 0),
  Rel("R_MIPS_CALL16", 2, 8), Rel("R_MIPS_TLS_GD", 3, 8),
  Rel("R_MIPS_GOT_LO16", 1, 0),
  Rel("R_MIPS_GOT_PAGE", 1, 8), Rel("R_MIPS_GOT_PAGE", 3, -4),
  Rel("R_MIPS_GOT_OFST", 1, 8),
  Rel("R_MIPS_JALR", 2, 0),
  Rel("R_MIPS_TLS_TPREL_HI16", 1, 8), Rel("R_MIPS_TLS_TPREL_LO16", 1, 8),
  Rel("R_MIPS_TLS_GOTTPREL", 1, 0),
  Rel("R_MIPS_TLS_DTPREL_HI16", 1, 8), Rel("R_MIPS_TLS_DTPREL_LO16", 1, 8),
  Rel("R_MIPS_TLS_GD", 3, 0), Rel("R_MIPS_TLS_LDM", 1, 0),
  Rel("R_MIPS_26", 1, 0),
  Rel("R_MIPS_GOT_DISP", 4, 0), Rel("R_MIPS_GOT_DISP", 4, 8) }

\* One section with up to MaxRelocs records of any type; the other is empty.
RelocRelSets ==
  {[t \in Sections |-> IF t = 1 THEN r ELSE <<>>] : r \in SeqsUpTo(RelocRecords, MaxRelocs)}

\* Records of a non-allocated section: the two legal types, a reference
\* into a discarded section, a skipped record, an unresolved symbol and a
\* type that is not legal there.
NonallocRelSets == {
  <<Rel("R_MIPS_64", 1, 8), Rel("R_MIPS_32", 3, 0)>>,
  <<Rel("R_MIPS_64", 5, 0), Rel("R_NONE", 1, 0)>>,
  <<Rel("R_MIPS_64", 4, 0), Rel("R_MIPS_GOT_DISP", 1, 0)>> }

\* An executable linked by a build without assertions, and a shared object
\* linked by a build with them.
RelocOpts == {[shared |-> FALSE, asserts |-> FALSE], [shared |-> TRUE, asserts |-> TRUE]}

InitReloc ==
  /\ InitLink(RelocRelSets, {[pic |-> TRUE, dynsym |-> <<0, 2, 1>>]},
              {NearLayout, FarLayout, EdgeLayout})
  /\ opts \in RelocOpts
  /\ nonalloc = Nonalloc(<<Rel("R_MIPS_GOT_DISP", 1, 0)>>)
  /\ hl = NoHiLo /\ cie = NoCie

SpecReloc == InitReloc /\ [][Next]_vars

\* A link of two allocated sections with one record each and a
\* non-allocated section with any of the record lists.
InitNonalloc ==
  /\ InitLink({[t \in Sections |-> IF t = 1 THEN <<Rel("R_MIPS_GOT_DISP", 1, 8)>>
                                   ELSE <<Rel("R_MIPS_GOT_DISP", 3, 0)>>]},
              LinkModes, {NearLayout})
  /\ opts = ExecOpts
  /\ \E r \in NonallocRelSets : nonalloc = Nonalloc(r)
  /\ hl = NoHiLo /\ cie = NoCie

SpecNonalloc == InitNonalloc /\ [][Next]_vars

-----------------------------------------------------------------------------
(* Properties of the pools and of the .mips_got layout                     *)

AllRels == UNION {{rels[t][i] : i \in 1..Len(rels[t])} : t \in Sections}

Pair(r) == [sym |-> r.r_sym, addend |-> r.r_addend]

\* The record reaches the switch of scan_relocations.
Dispatched(r) == r.r_type # "R_NONE" /\ ~SymTab[r.r_sym].is_undef

IsOrdPush(r) == Dispatched(r) /\ r.r_type = "R_MIPS_GOT_DISP" /\ r.r_addend # 0

IsPagePush(r) ==
  Dispatched(r) /\ (r.r_type = "R_MIPS_GOT_PAGE" \/ r.r_type = "R_MIPS_GOT_OFST")

\* The pairs the scanners appended to each pool.
OrdAppended == {Pair(r) : r \in {q \in AllRels : IsOrdPush(q)}}
PageAppended == {Pair(r) : r \in {q \in AllRels : IsPagePush(q)}}

\* Appends with multiplicity.
OrdAppends == Len(SelectSeq(rels[1], IsOrdPush)) + Len(SelectSeq(rels[2], IsOrdPush))
PageAppends == Len(SelectSeq(rels[1], IsPagePush)) + Len(SelectSeq(rels[2], IsPagePush))

Key(e) == <<SymTab[e.sym].priority, SymTab[e.sym].sym_idx, e.addend>>

KeyLt(a, b) ==
  LET x == Key(a)
      y == Key(b)
  IN  x[1] < y[1] \/ (x[1] = y[1] /\ (x[2] < y[2] \/ (x[2] = y[2] /\ x[3] < y[3])))

\* update_shdr has run; "fatal" and "crashed" end the fill pass.
LayoutDone == phase \in {"layout", "fill", "fatal", "crashed"}

PoolFinal(pool, appended) ==
  /\ \A k \in 1..(Len(pool) - 1) : KeyLt(pool[k], pool[k + 1])
  /\ \A i, j \in 1..Len(pool) : i # j => pool[i] # pool[j]
  /\ {pool[k] : k \in 1..Len(pool)} = appended
  /\ \A k \in 1..Len(pool) : Cardinality({e \in appended : KeyLt(e, pool[k])}) = k - 1

\* C1: after update_shdr each pool is strictly ascending by (file priority,
\* symbol index, addend), holds no two equal entries, holds every pair that
\* was appended, and is the one sequence the set of appended pairs
\* determines, whatever the order in which the scanners appended.
C1_PoolsFinalized ==
  LayoutDone => PoolFinal(got_syms, OrdAppended) /\ PoolFinal(gotpage_syms, PageAppended)

\* Both sections appended to the ordinary pool, one pair more than once.
C1_Witness ==
  /\ phase = "layout"
  /\ Len(got_syms) >= 2
  /\ OrdAppends > Len(got_syms)
  /\ \A t \in Sections : SelectSeq(rels[t], IsOrdPush) # <<>>

Slot(n) == U64Add(addrs.mips_got, ToU64(n * WordSize))

\* C2: after update_shdr get_got_addr of an appended pair is section base +
\* (R + D + k) * word size, k the pair's position in got_syms, and
\* get_gotpage_got_addr is section base + (R + D + |got_syms| + k) * word
\* size, k the position in gotpage_syms; distinct pairs get distinct slots.
C2_SlotAddresses ==
  LayoutDone =>
    LET base == NUM_RESERVED + Len(dynsym) IN
    /\ \A e \in OrdAppended :
         \E k \in 1..Len(got_syms) :
           /\ got_syms[k] = e
           /\ get_got_addr(e.sym, e.addend) = Slot(base + k - 1)
    /\ \A e \in PageAppended :
         \E k \in 1..Len(gotpage_syms) :
           /\ gotpage_syms[k] = e
           /\ get_gotpage_got_addr(e.sym, e.addend) = Slot(base + Len(got_syms) + k - 1)
    /\ \A e1, e2 \in OrdAppended :
         e1 # e2 => get_got_addr(e1.sym, e1.addend) # get_got_addr(e2.sym, e2.addend)
    /\ \A e1, e2 \in PageAppended :
         e1 # e2 => get_gotpage_got_addr(e1.sym, e1.addend)
                      # get_gotpage_got_addr(e2.sym, e2.addend)
    /\ \A e1 \in OrdAppended, e2 \in PageAppended :
         get_got_addr(e1.sym, e1.addend) # get_gotpage_got_addr(e2.sym, e2.addend)

\* Two pairs in the ordinary pool, a pair in the page pool, a dynamic symbol
\* table of three entries.
C2_Witness ==
  /\ phase = "layout"
  /\ Len(got_syms) >= 2
  /\ Len(gotpage_syms) >= 1
  /\ Len(dynsym) = 3

\* C3: after update_shdr the section size is (R + D + P1 + P2) * word size;
\* copy_buf writes the sentinel inside [0, R), the mirror inside [R, R + D),
\* the ordinary entries inside [R + D, R + D + P1) and the page entries
\* inside [R + D + P1, R + D + P1 + P2), nothing at or past size / word
\* size, and the lookups of appended pairs fall inside their pool's range.
C3_GotPartition ==
  LayoutDone =>
    LET R  == NUM_RESERVED
        D  == Len(dynsym)
        P1 == Len(got_syms)
        P2 == Len(gotpage_syms)
        n  == sh_size \div WordSize
        w  == CopyBufWrites
        m  == Len(w) - P1 - P2
    IN  /\ sh_size = (R + D + P1 + P2) * WordSize
        /\ m >= 1
        /\ w[1][1] \in 0..(R - 1)
        /\ \A k \in 2..m : w[k][1] \in R..(R + D - 1)
        /\ \A k \in 1..P1 : w[m + k][1] \in (R + D)..(R + D + P1 - 1)
        /\ \A k \in 1..P2 : w[m + P1 + k][1] \in (R + D + P1)..(R + D + P1 + P2 - 1)
        /\ \A k \in 1..Len(w) : w[k][1] < n
        /\ got_buf # <<>> => DOMAIN got_buf = 0..(n - 1)
        /\ \A e \in OrdAppended :
             got_idx_of(e.sym, e.addend) \in (R + D)..(R + D + P1 - 1)
        /\ \A e \in PageAppended :
             gotpage_idx_of(e.sym, e.addend) \in (R + D + P1)..(n - 1)

\* copy_buf ran on a table with mirrored symbols and entries in both pools,
\* after duplicates were removed from a pool.
C3_Witness ==
  /\ got_buf # <<>>
  /\ Len(dynsym) = 3
  /\ Len(got_syms) >= 1
  /\ Len(gotpage_syms) >= 1
  /\ OrdAppends + PageAppends > Len(got_syms) + Len(gotpage_syms)

\* C7: a R_MIPS_GOT_DISP record that reaches the switch sets NEEDS_GOT on
\* its symbol and appends to neither pool when its addend is zero; with a
\* nonzero addend it takes the lock, appends exactly {symbol, addend} to
\* got_syms while it holds the lock, and changes neither the flags nor
\* gotpage_syms.
C7_Step(t) ==
  LET i   == scan_i[t]
      rel == rels[t][i]
  IN  ( /\ phase = "scan" /\ i <= Len(rels[t])
        /\ rel.r_type = "R_MIPS_GOT_DISP" /\ Dispatched(rel)
        /\ (scan_i'[t] # scan_i[t] \/ scan_pc'[t] # scan_pc[t]) )
      => IF rel.r_addend = 0
         THEN /\ scan_i'[t] = i + 1
              /\ flags' = [flags EXCEPT ![rel.r_sym] = @ \cup {"NEEDS_GOT"}]
              /\ UNCHANGED <<got_syms, gotpage_syms>>
         ELSE \/ /\ scan_pc[t] = "loop" /\ scan_pc'[t] = "locked"
                 /\ mu = 0 /\ mu' = t
                 /\ UNCHANGED <<scan_i, got_syms, gotpage_syms, flags>>
              \/ /\ scan_pc[t] = "locked" /\ scan_pc'[t] = "loop"
                 /\ mu = t
                 /\ scan_i'[t] = i + 1
                 /\ got_syms' = Append(got_syms, Pair(rel))
                 /\ UNCHANGED <<gotpage_syms, flags>>

C7_GotDispScan == [][\A t \in Sections : C7_Step(t)]_vars

\* A scan in which one GOT_DISP record set the flag and another appended.
C7_Witness ==
  /\ phase = "scan"
  /\ got_syms # <<>>
  /\ "NEEDS_GOT" \in flags[3]
  /\ mu # 0

\* C8: copy_buf writes one dynamic relocation for every GOT entry whose
\* r_type is not R_NONE and none for the others, each at the entry's own
\* slot address, and as many as get_reldyn_size counted when the region
\* was reserved.
C8_DynrelCount ==
  got_buf # <<>> =>
    LET ents == get_got_entries
        first == NUM_RESERVED + Len(dynsym)
    IN  /\ Len(dynrel) = reldyn_n
        /\ reldyn_n = get_reldyn_size
        /\ \A k \in 1..Len(ents) :
             Cardinality({j \in 1..Len(dynrel) : dynrel[j].r_offset = Slot(first + k - 1)})
               = IF ents[k].r_type # "R_NONE" THEN 1 ELSE 0
        /\ \A j \in 1..Len(dynrel) :
             \E k \in 1..Len(ents) :
               /\ dynrel[j].r_offset = Slot(first + k - 1)
               /\ dynrel[j].r_type = ents[k].r_type

\* copy_buf wrote relocations for some entries and none for another.
C8_Witness ==
  /\ got_buf # <<>>
  /\ Len(dynrel) >= 2
  /\ Len(dynrel) < Len(got_syms) + Len(gotpage_syms)

\* The slot at address a holds what the claim says for the pair e.
SlotHolds(a, e, ordinary) ==
  \E idx \in DOMAIN got_buf :
    /\ Slot(idx) = a
    /\ IF ordinary /\ SymTab[e.sym].is_imported
       THEN /\ got_buf[idx] = Zero64
            /\ \E j \in 1..Len(dynrel) :
                 /\ dynrel[j].r_offset = a
                 /\ dynrel[j].r_type = "R_DYNAMIC"
                 /\ dynrel[j].r_sym = get_dynsym_idx(e.sym)
       ELSE got_buf[idx] = U64Add(SymTab[e.sym].addr, ToU64(e.addend))

\* C10: after update_shdr and copy_buf the slot at the address get_got_addr
\* or get_gotpage_got_addr returns for an appended pair, and the slot whose
\* address apply_reloc_alloc encoded, holds the symbol's address plus the
\* addend, or 0 with a R_DYNAMIC relocation of the slot for an imported
\* symbol of the ordinary pool.
C10_SlotContents ==
  got_buf # <<>> =>
    /\ \A e \in OrdAppended : SlotHolds(get_got_addr(e.sym, e.addend), e, TRUE)
    /\ \A e \in PageAppended : SlotHolds(get_gotpage_got_addr(e.sym, e.addend), e, FALSE)
    /\ \A t \in Sections : \A i \in 1..Len(out[t]) :
         /\ out[t][i].reads = "gotpool" =>
              SlotHolds(U64Add(out[t][i].val, addrs.gp), Pair(rels[t][i]), TRUE)
         /\ out[t][i].reads = "pagepool" =>
              SlotHolds(U64Add(out[t][i].val, addrs.gp), Pair(rels[t][i]), FALSE)

\* The table is filled, it holds an imported symbol's entry and a page
\* entry, and a relocation against each pool was applied.
C10_Witness ==
  /\ got_buf # <<>>
  /\ \E k \in 1..Len(got_syms) : SymTab[got_syms[k].sym].is_imported
  /\ Len(gotpage_syms) >= 1
  /\ \E t \in Sections : \E i \in 1..Len(out[t]) : out[t][i].reads = "gotpool"
  /\ \E t \in Sections : \E i \in 1..Len(out[t]) : out[t][i].reads = "pagepool"

-----------------------------------------------------------------------------
(* Properties of the scan and apply passes                                 *)

\* What the scan of the record left for apply_reloc_alloc to read.
C4_Provided(rel, o) ==
  /\ o.reads = "got"   => "NEEDS_GOT" \in flags[rel.r_sym]
  /\ o.reads = "gottp" => "NEEDS_GOTTP" \in flags[rel.r_sym]
  /\ o.reads = "tlsgd" => "NEEDS_TLSGD" \in flags[rel.r_sym]
  /\ o.reads = "tlsld" => needs_tlsld
  /\ o.reads = "gotpool" =>
       o.pos + 1 \in 1..Len(got_syms) /\ got_syms[o.pos + 1] = Pair(rel)
  /\ o.reads = "pagepool" =>
       o.pos + 1 \in 1..Len(gotpage_syms) /\ gotpage_syms[o.pos + 1] = Pair(rel)

\* The slot apply_reloc_alloc uses for a record, by its type.
C4_Reads(rel) ==
  CASE rel.r_type = "R_MIPS_GOT_DISP" /\ rel.r_addend # 0 -> "gotpool"
    [] rel.r_type = "R_MIPS_GOT_DISP" /\ rel.r_addend = 0 -> "got"
    [] rel.r_type \in {"R_MIPS_CALL16", "R_MIPS_CALL_HI16", "R_MIPS_CALL_LO16",
                       "R_MIPS_GOT_HI16", "R_MIPS_GOT_LO16"} -> "got"
    [] rel.r_type = "R_MIPS_GOT_PAGE" -> "pagepool"
    [] rel.r_type = "R_MIPS_TLS_GOTTPREL" -> "gottp"
    [] rel.r_type = "R_MIPS_TLS_GD" -> "tlsgd"
    [] rel.r_type = "R_MIPS_TLS_LDM" -> "tlsld"
    [] OTHER -> "none"

C4_Applied ==
  \A t \in Sections : \A i \in 1..Len(out[t]) :
    /\ out[t][i].reads = C4_Reads(rels[t][i])
    /\ C4_Provided(rels[t][i], out[t][i])

\* C4: whenever apply_reloc_alloc reads a GOT or TLS slot for a record, the
\* scan of that record set the matching flag, or appended the identical
\* pair to the matching pool so that the lookup lands on an equal entry;
\* and a step of apply_reloc_alloc changes no flag and appends to no pool.
C4_ScanProvides ==
  /\ [] C4_Applied
  /\ [][(\E t \in Sections : apply_i'[t] # apply_i[t])
          => UNCHANGED <<flags, needs_tlsld, got_syms, gotpage_syms>>]_vars

\* A section whose two records were applied: one read the symbol's GOT
\* slot, the other looked its pair up in the ordinary pool.
C4_Witness ==
  /\ Len(out[1]) = 2
  /\ \E i \in 1..2 : out[1][i].reads = "got"
  /\ \E i \in 1..2 : out[1][i].reads = "gotpool"

CheckedLo16Types == {"R_MIPS_GOT_DISP", "R_MIPS_CALL16", "R_MIPS_CALL_LO16",
                     "R_MIPS_GOT_LO16", "R_MIPS_GOT_PAGE"}

\* The GP-relative byte offset of the slot the record refers to.
C5_Offset(rel) ==
  LET base == NUM_RESERVED + Len(dynsym)
      e    == Pair(rel)
  IN  CASE rel.r_type = "R_MIPS_GOT_DISP" /\ rel.r_addend # 0 ->
             U64Sub(Slot(base + (CHOOSE k \in 1..Len(got_syms) : got_syms[k] = e) - 1),
                    addrs.gp)
        [] rel.r_type = "R_MIPS_GOT_PAGE" ->
             U64Sub(Slot(base + Len(got_syms)
                         + (CHOOSE k \in 1..Len(gotpage_syms) : gotpage_syms[k] = e) - 1),
                    addrs.gp)
        [] OTHER ->
             U64Sub(U64Add(ToU64(SymTab[rel.r_sym].got_idx * WordSize), addrs.got),
                    addrs.gp)

\* The offset as an i64 lies in [-32768, 32768): it is the sign extension
\* of its own low 16 bits.
Fits16(v) == v = SignExtend16(v[1])

\* C5: for every GOT_DISP, CALL16, CALL_LO16, GOT_LO16 and GOT_PAGE record
\* applied, the out-of-range diagnostic is reported exactly when the
\* GP-relative offset is outside [-32768, 32768); the low 16 bits are
\* written either way, and the diagnostic does not end the pass.
C5_RangeChecked ==
  \A t \in Sections :
    /\ \A i \in 1..Len(out[t]) :
         rels[t][i].r_type \in CheckedLo16Types =>
           LET off == C5_Offset(rels[t][i]) IN
           /\ out[t][i].how = "lo16"
           /\ out[t][i].val = off
           /\ out[t][i].loc[1] = off[1]
           /\ (<<"range", t, i>> \in diags) <=> ~Fits16(off)
    /\ (\E d \in diags : d[1] = "range") => phase \in {"fill", "fatal"}

\* Two checked records were applied: the first was out of range and
\* reported, the second was in range.
C5_Witness ==
  /\ Len(out[1]) = 2
  /\ rels[1][1].r_type \in CheckedLo16Types
  /\ rels[1][2].r_type \in CheckedLo16Types
  /\ <<"range", 1, 1>> \in diags
  /\ <<"range", 1, 2>> \notin diags

-----------------------------------------------------------------------------
(* write_hi16 and write_lo16_nc on 32-bit offsets                          *)

\* Halves of the sample offsets: 0, 1, 0x7fff, 0x8000, 0xffff.
HalfSamples == {0, 1, Half - 1, Half, Limb - 1}

\* Signed 32-bit offsets as i64: among them 0, 0x7fff, 0x8000, -1, -0x8000,
\* 0x7fffffff and -0x80000000.
HiLoVals ==
  {<<l, h, IF h >= Half THEN Limb - 1 ELSE 0, IF h >= Half THEN Limb - 1 ELSE 0>> :
     l \in HalfSamples, h \in HalfSamples}

\* lui $gp, 0 and addiu $gp, $gp, 0
HiLoInsns == {<<0, 15388>>, <<0, 10140>>}

InitHiLo ==
  /\ InitLink({[t \in Sections |-> <<>>]}, {[pic |-> FALSE, dynsym |-> <<0>>]},
              {NearLayout})
  /\ opts = ExecOpts /\ nonalloc = Nonalloc(<<>>)
  /\ cie = NoCie
  /\ \E v \in HiLoVals, w \in HiLoInsns :
       hl = [pc |-> "on", val |-> v, insn |-> w, hi_loc |-> w, lo_loc |-> w,
             hi_done |-> FALSE, lo_done |-> FALSE, diag |-> FALSE]

\* write_hi16(val) on the first instruction of the pair.
HiWrite ==
  /\ hl.pc = "on" /\ ~hl.hi_done
  /\ LET w == write_hi16(hl.hi_loc, hl.val)
     IN  hl' = [hl EXCEPT !.hi_loc = w.loc, !.hi_done = TRUE, !.diag = @ \/ w.diag]
  /\ UNCHANGED <<linkvars, cie>>

\* write_lo16_nc(val) on the second instruction of the pair.
LoWrite ==
  /\ hl.pc = "on" /\ ~hl.lo_done
  /\ LET w == write_lo16_nc(hl.lo_loc, hl.val)
     IN  hl' = [hl EXCEPT !.lo_loc = w.loc, !.lo_done = TRUE, !.diag = @ \/ w.diag]
  /\ UNCHANGED <<linkvars, cie>>

NextHiLo == HiWrite \/ LoWrite

SpecHiLo == InitHiLo /\ [][NextHiLo]_vars

\* C6: for a signed 32-bit val, with hi = (val + 0x8000) >> 16 and
\* lo = val & 0xffff, (hi << 16) + sign_extend16(lo) is val; the field
\* write_hi16 ors into the instruction is hi mod 2^16 and the field
\* write_lo16_nc ors in is lo.
C6_HiLoRoundTrip ==
  hl.pc = "on" =>
    LET val == hl.val
        hi  == AShr16(U64Add(val, <<32768, 0, 0, 0>>))
        lo  == val[1]
    IN  /\ U64Add(Shl16(hi), SignExtend16(lo)) = val
        /\ hl.hi_done => hl.hi_loc = <<hi[1], hl.insn[2]>>
        /\ hl.lo_done => hl.lo_loc = <<lo, hl.insn[2]>>

\* Both halves of 0x7fffffff were written.
C6_Witness ==
  /\ hl.pc = "on"
  /\ hl.val = <<65535, 32767, 0, 0>>
  /\ hl.hi_done /\ hl.lo_done

-----------------------------------------------------------------------------
(* mips_rewrite_cie                                                        *)

\* Bytes are numbers 0..255; a buffer is a sequence of bytes, and the byte
\* at C offset o is buf[o + 1].
At(buf, o) == buf[o + 1]

\* strlen((char *)(buf + o))
RECURSIVE strlen(_, _)
strlen(buf, o) == IF At(buf, o) = 0 THEN 0 ELSE 1 + strlen(buf, o + 1)

\* read_uleb(&p): the offset behind the ULEB128 number at offset o.
RECURSIVE read_uleb(_, _)
read_uleb(buf, o) == IF At(buf, o) >= 128 THEN read_uleb(buf, o + 1) ELSE o + 1

\* DWARF pointer encodings.
DW_EH_PE_absptr == 0
DW_EH_PE_udata4 == 3
DW_EH_PE_udata8 == 4
DW_EH_PE_sdata4 == 11
DW_EH_PE_sdata8 == 12
DW_EH_PE_pcrel  == 16

\* b & 0xf, b & 0x70 and b & 0x80
FormatBits(b) == b % 16
ApplicationBits(b) == ((b \div 16) % 8) * 16
IndirectBit(b) == (b \div 128) * 128

\* Mutant: every absolute encoding becomes the 8-byte PC-relative one.
rewrite_AlwaysSdata8(b) ==
  LET f  == FormatBits(b)
      sz == CASE f = DW_EH_PE_absptr -> WordSize
              [] f \in {DW_EH_PE_udata4, DW_EH_PE_sdata4} -> 4
              [] f \in {DW_EH_PE_udata8, DW_EH_PE_sdata8} -> 8
              [] OTHER -> 0
  IN  [fatal |-> sz = 0,
       sz    |-> sz,
       byte  |-> IF sz # 0 /\ ApplicationBits(b) = DW_EH_PE_absptr
                 THEN IndirectBit(b) + DW_EH_PE_pcrel + DW_EH_PE_sdata8
                 ELSE b]

\* The lambda rewrite on the encoding byte b: whether it ends in Fatal, the
\* size it returns and the byte it leaves at *ptr.
rewrite(b) ==
  LET f  == FormatBits(b)
      sz == CASE f = DW_EH_PE_absptr -> WordSize
              [] f \in {DW_EH_PE_udata4, DW_EH_PE_sdata4} -> 4
              [] f \in {DW_EH_PE_udata8, DW_EH_PE_sdata8} -> 8
              [] OTHER -> 0
  IN  [fatal |-> sz = 0,
       sz    |-> sz,
       byte  |-> IF sz # 0 /\ ApplicationBits(b) = DW_EH_PE_absptr
                 THEN IF sz = 4
                      THEN IndirectBit(b) + DW_EH_PE_pcrel + DW_EH_PE_sdata4
                      ELSE IndirectBit(b) + DW_EH_PE_pcrel + DW_EH_PE_sdata8
                 ELSE b]

\* Characters of the augmentation string.
ChZ == 122
ChL == 76
ChR == 82
ChP == 80
ChS == 83
ChB == 66
ChE == 101

\* Entry of mips_rewrite_cie up to the loop: the test for 'z' and the skip
\* over the augmentation string and the fields before the augmentation
\* data.
CieEnter ==
  /\ cie.pc = "entry"
  /\ IF At(cie.buf, 9) # ChZ
     THEN cie' = [cie EXCEPT !.pc = "return"]
     ELSE LET aug == 10
              p0  == aug + strlen(cie.buf, aug) + 1
              p1  == read_uleb(cie.buf, p0)
              p2  == read_uleb(cie.buf, p1)
              p3  == p2 + 1
              p4  == read_uleb(cie.buf, p3)
          IN  cie' = [cie EXCEPT !.pc = "loop", !.aug = aug, !.p = p4]
  /\ UNCHANGED <<linkvars, hl>>

\* One iteration of the loop over the augmentation string.
CieStep ==
  /\ cie.pc = "loop"
  /\ LET c == At(cie.buf, cie.aug)
         r == rewrite(At(cie.buf, cie.p))
     IN  IF c = 0
         THEN cie' = [cie EXCEPT !.pc = "return"]
         ELSE IF c \in {ChL, ChR, ChP}
         THEN IF r.fatal
              THEN cie' = [cie EXCEPT !.pc = "fatal"]
              ELSE cie' = [cie EXCEPT !.buf = [@ EXCEPT ![cie.p + 1] = r.byte],
                                      !.p = IF c = ChP THEN @ + r.sz + 1 ELSE @ + 1,
                                      !.aug = @ + 1]
         ELSE IF c \in {ChS, ChB}
         THEN cie' = [cie EXCEPT !.aug = @ + 1]
         ELSE cie' = [cie EXCEPT !.aug = @ + 1, !.errors = @ + 1]
  /\ UNCHANGED <<linkvars, hl>>

\* mips_rewrite_cie is called on the same CIE once more.
CieAgain ==
  /\ cie.pc = "return" /\ cie.run = 1
  /\ cie' = [cie EXCEPT !.pc = "entry", !.run = 2, !.first = cie.buf]
  /\ UNCHANGED <<linkvars, hl>>

\* The eight bytes of a u64 in the little-endian target's order.
Bytes64(v) ==
  <<v[1] % 256, v[1] \div 256, v[2] % 256, v[2] \div 256,
    v[3] % 256, v[3] \div 256, v[4] % 256, v[4] \div 256>>

\* this->shdr.sh_addr of .eh_frame; the CIE lies at the section's start, so
\* that an offset into the buffer is the offset apply_eh_reloc is given.
EhFrameAddr == <<4096, 5, 0, 0>>

\* Values of the relocation: an address behind .eh_frame and one before it.
EhVals == {<<9024, 5, 0, 0>>, <<9024, 1, 0, 0>>}

EhRelTypes == {"R_NONE", "R_MIPS_64", "R_MIPS_32"}

\* EhFrameSection::apply_eh_reloc on a relocation of the CIE, after the CIE
\* was copied and rewritten: R_MIPS_64 stores val - sh_addr - offset.
apply_eh_reloc ==
  /\ cie.pc = "return" /\ cie.reloc = -1
  /\ \E ty \in EhRelTypes, offset \in cie.ptrpos, val \in EhVals :
       LET w == Bytes64(U64Sub(U64Sub(val, EhFrameAddr), ToU64(offset)))
       IN  CASE ty = "R_NONE" -> cie' = [cie EXCEPT !.reloc = offset]
             [] ty = "R_MIPS_64" ->
                  cie' = [cie EXCEPT !.reloc = offset,
                            !.buf = [i \in 1..Len(@) |->
                                       IF i - 1 \in offset..(offset + 7)
                                       THEN w[i - offset] ELSE @[i]]]
             [] OTHER -> cie' = [cie EXCEPT !.pc = "fatal"]
  /\ UNCHANGED <<linkvars, hl>>

NextCie == CieEnter \/ CieStep \/ CieAgain \/ apply_eh_reloc

\* The longest augmentation string.
MaxAug == 3

AugChars == {ChZ, ChL, ChR, ChP, ChS, ChB, ChE}

\* Encoding bytes: absptr, udata4, sdata4, indirect udata8, pcrel sdata4,
\* aligned absptr, omit.
EncBytes == {0, 3, 11, 132, 27, 80, 255}

\* Size of the pointer that follows the encoding byte of 'P'.
PointerBytes(enc) ==
  CASE enc % 16 \in {3, 11} -> <<17, 34, 51, 68>>
    [] enc % 16 \in {0, 4, 12} -> <<17, 34, 51, 68, 85, 102, 119, 136>>
    [] OTHER -> <<>>

\* The augmentation data of a CIE whose augmentation string is "z" + str.
RECURSIVE AugData(_, _)
AugData(str, enc) ==
  IF str = <<>> THEN <<>>
  ELSE (CASE Head(str) = ChL -> <<enc.L>>
          [] Head(str) = ChR -> <<enc.R>>
          [] Head(str) = ChP -> <<enc.P>> \o PointerBytes(enc.P)
          [] OTHER -> <<>>)
       \o AugData(Tail(str), enc)

\* Offsets, within the augmentation data, of its encoding bytes.
RECURSIVE EncOffsets(_, _, _)
EncOffsets(str, enc, at) ==
  IF str = <<>> THEN {}
  ELSE CASE Head(str) \in {ChL, ChR} -> {at} \cup EncOffsets(Tail(str), enc, at + 1)
         [] Head(str) = ChP ->
              {at} \cup EncOffsets(Tail(str), enc, at + 1 + Len(PointerBytes(enc.P)))
         [] OTHER -> EncOffsets(Tail(str), enc, at)

\* Length, CIE id, version, augmentation string, code alignment factor (a
\* two-byte ULEB128), data alignment factor, return address register.
CiePrefix(str) == <<24, 0, 0, 0, 0, 0, 0, 0, 1>> \o str \o <<0>> \o <<129, 1, 120, 31>>

\* The initial instructions behind the augmentation data.
CieTail == <<12, 29, 0>>

\* A CIE with augmentation string str; one starting with 'z' carries the
\* length of its augmentation data and the data.
CieBytes(str, enc) ==
  IF str # <<>> /\ Head(str) = ChZ
  THEN LET data == AugData(Tail(str), enc)
       IN  CiePrefix(str) \o <<Len(data)>> \o data \o CieTail
  ELSE CiePrefix(str) \o CieTail

\* Offsets, within the augmentation data, of the 8-byte personality
\* pointers.
RECURSIVE PtrOffsets(_, _, _)
PtrOffsets(str, enc, at) ==
  IF str = <<>> THEN {}
  ELSE CASE Head(str) \in {ChL, ChR} -> PtrOffsets(Tail(str), enc, at + 1)
         [] Head(str) = ChP ->
              (IF Len(PointerBytes(enc.P)) = 8 THEN {at + 1} ELSE {})
                \cup PtrOffsets(Tail(str), enc, at + 1 + Len(PointerBytes(enc.P)))
         [] OTHER -> PtrOffsets(Tail(str), enc, at)

\* Buffer offsets of the personality pointers that carry a relocation.
CiePtrPos(str, enc) ==
  IF str # <<>> /\ Head(str) = ChZ
  THEN PtrOffsets(Tail(str), enc, Len(CiePrefix(str)) + 1)
  ELSE {}

CieEncPos(str, enc) ==
  IF str # <<>> /\ Head(str) = ChZ
  THEN EncOffsets(Tail(str), enc, Len(CiePrefix(str)) + 1)
  ELSE {}

InitCie ==
  /\ InitLink({[t \in Sections |-> <<>>]}, {[pic |-> FALSE, dynsym |-> <<0>>]},
              {NearLayout})
  /\ opts = ExecOpts /\ nonalloc = Nonalloc(<<>>)
  /\ hl = NoHiLo
  /\ \E str \in SeqsUpTo(AugChars, MaxAug), enc \in [L : EncBytes, R : EncBytes, P : EncBytes] :
       cie = [pc |-> "entry", run |-> 1, aug |-> 9, p |-> 0, errors |-> 0,
              buf |-> CieBytes(str, enc), orig |-> CieBytes(str, enc), first |-> <<>>,
              str |-> str, encpos |-> CieEncPos(str, enc),
              ptrpos |-> CiePtrPos(str, enc), reloc |-> -1]

SpecCie == InitCie /\ [][NextCie]_vars

\* The encoding byte declares an absolute pointer of a known width.
AbsEnc(b) == (b \div 16) % 8 = 0 /\ b % 16 \in {0, 3, 4, 11, 12}

\* The PC-relative signed encoding of the same width, indirect bit kept.
PcRelOf(b) == (b \div 128) * 128 + 16 + (IF b % 16 \in {3, 11} THEN 11 ELSE 12)

\* Byte i of the buffer belongs to the pointer apply_eh_reloc relocated; the
\* rewrite is not what changed it.
Relocated(i) == cie.reloc # -1 /\ (i - 1) \in cie.reloc..(cie.reloc + 7)

Recognized(str) == \A k \in 2..Len(str) : str[k] \in {ChL, ChR, ChP, ChS, ChB}

\* C9: a CIE whose augmentation string does not begin with 'z' keeps every
\* byte; in a 'z' CIE the only bytes that change are encoding bytes reached
\* by 'L', 'R' and 'P' that declare an absolute pointer, each replaced by
\* the PC-relative signed encoding of equal width with the indirect bit
\* kept, and for a string of recognized characters every such byte is
\* replaced; a second run changes nothing. The bytes of a pointer that
\* apply_eh_reloc stored are not the rewrite's.
C9_CieRewrite ==
  cie.pc # "off" =>
    /\ Len(cie.buf) = Len(cie.orig)
    /\ (cie.str = <<>> \/ cie.str[1] # ChZ) => cie.buf = cie.orig
    /\ \A i \in 1..Len(cie.buf) :
         (cie.buf[i] # cie.orig[i] /\ ~Relocated(i)) =>
           /\ (i - 1) \in cie.encpos
           /\ AbsEnc(cie.orig[i])
           /\ cie.buf[i] = PcRelOf(cie.orig[i])
    /\ (cie.pc = "return" /\ cie.str # <<>> /\ cie.str[1] = ChZ /\ Recognized(cie.str)) =>
         \A o \in cie.encpos :
           AbsEnc(cie.orig[o + 1]) => cie.buf[o + 1] = PcRelOf(cie.orig[o + 1])
    /\ cie.run = 2 =>
         /\ Len(cie.buf) = Len(cie.first)
         /\ \A i \in 1..Len(cie.buf) : ~Relocated(i) => cie.buf[i] = cie.first[i]

\* The second run returned on a CIE in which the first run replaced a
\* 4-byte and an 8-byte absolute encoding, one of them indirect.
C9_Witness ==
  /\ cie.pc = "return" /\ cie.run = 2
  /\ \E i, j \in 1..Len(cie.buf) :
       /\ cie.buf[i] # cie.orig[i] /\ cie.orig[i] = 3
       /\ cie.buf[j] # cie.orig[j] /\ cie.orig[j] = 132

=============================================================================
